---- MODULE Spec2Model ----
(***************************************************************************)
(* Model of the oxidy server core: the registration API of Server, its    *)
(* listen loop (src/src/server.rs), the thread-count hint                  *)
(* (src/src/libs/cpus.rs), and the two collaborators listen hands work to: *)
(* the ThreadPool (libs/threadpool) and the per-connection handler         *)
(* (libs/handler), which are modelled from their written contract.         *)
(***************************************************************************)
EXTENDS Integers, Sequences, FiniteSets, TLC

VARIABLES
    server,   \* the Server struct: its eight fields
    issued,   \* per kind of registration call, the path argument of each call
              \* the application made so far, in call order ("-": no path)
    host,     \* what num_cpus reports: [logical, physical]
    hint,     \* <<n>> once cpus() has returned n, <<>> before
    pc,       \* the thread that owns the Server: "config" (before listen),
              \* "accept" (inside the for loop of listen), "panicked"
    stdout,   \* lines printed by listen: [listening, errors] (counts)
    poll,     \* the latest item of server.incoming(): [last, tick], tick
              \* flipping at every item
    pool,     \* the ThreadPool: [size, live, queue]
    worker,   \* per worker thread: the job it runs and where its pipeline is
    conns     \* one record per accepted connection, in accept order

vars == <<server, issued, host, hint, pc, stdout, poll, pool, worker, conns>>

----------------------------------------------------------------------------
(* Bounds of the exploration *)

MaxRoutes == 2        \* get/post/put/delete/patch calls (routing scenario)
MaxCatch == 2         \* catch() calls (routing scenario)
MaxMiddlewares == 3   \* middleware() calls (chain scenario)
MaxThreads == 1       \* largest argument of threads()
MaxConns == 3         \* connections accepted (pool scenario)
MaxPolled == 2        \* connections accepted (acceptor scenario)
MaxErrors == 1        \* failed polls that are logged
MaxCores == 10        \* largest core count a host reports to cpus()
HostLogical == 2      \* the host of the serving scenarios
HostPhysical == 1

Methods == {"GET", "POST", "PUT", "DELETE", "PATCH"}
Paths == {"/", "/x"}
Requests == Methods \X Paths
Kinds == Methods \cup {"middleware", "catch"}

\* A callback is named after the call that passed it: <<"GET", 2>> is the
\* function given to the second get() call. None: Option::None, no handler.
Callback(kind, k) == <<kind, k>>
None == <<>>

Last(s) == s[Len(s)]
Front(s) == SubSeq(s, 1, Len(s) - 1)

----------------------------------------------------------------------------
(* Server::new and the registration API *)

new ==
    [middlewares |-> <<>>, gets |-> <<>>, posts |-> <<>>, puts |-> <<>>,
     deletes |-> <<>>, patchs |-> <<>>, catchs |-> None, allow_threads |-> 0]

Unstarted ==
    /\ hint = <<>>
    /\ pc = "config"
    /\ stdout = [listening |-> 0, errors |-> 0]
    /\ poll = [last |-> "none", tick |-> 0]
    /\ pool = [size |-> 0, live |-> {}, queue |-> <<>>]
    /\ worker = <<>>
    /\ conns = <<>>

Init ==
    /\ server = new
    /\ issued = [kind \in Kinds |-> <<>>]
    /\ host = [logical |-> HostLogical, physical |-> HostPhysical]
    /\ Unstarted

Serving == <<host, hint, pc, stdout, poll, pool, worker, conns>>

\* a middleware that puts the new callback in front of the chain
middleware_front(callback) ==
    server' = [server EXCEPT !.middlewares = <<callback>> \o @]

middleware(callback) ==
    server' = [server EXCEPT !.middlewares = Append(@, callback)]

\* a get that puts the new route in front of the list
get_front(path, callback) ==
    server' = [server EXCEPT !.gets = <<<<path, callback>>>> \o @]

get(path, callback) ==
    server' = [server EXCEPT !.gets = Append(@, <<path, callback>>)]

\* a post that files its route under GET
post_in_gets(path, callback) ==
    server' = [server EXCEPT !.gets = Append(@, <<path, callback>>)]

\* a post that skips a path it already has
post_dedup(path, callback) ==
    server' = IF \E i \in 1..Len(server.posts) : server.posts[i][1] = path
              THEN server
              ELSE [server EXCEPT !.posts = Append(@, <<path, callback>>)]

post(path, callback) ==
    server' = [server EXCEPT !.posts = Append(@, <<path, callback>>)]

put(path, callback) ==
    server' = [server EXCEPT !.puts = Append(@, <<path, callback>>)]

delete(path, callback) ==
    server' = [server EXCEPT !.deletes = Append(@, <<path, callback>>)]

patch(path, callback) ==
    server' = [server EXCEPT !.patchs = Append(@, <<path, callback>>)]

\* a catch that keeps the fallback it already has
catch_keep(callback) ==
    server' = IF server.catchs = None
              THEN [server EXCEPT !.catchs = callback]
              ELSE server

\* a catch that does not store the callback
catch_dropped(callback) ==
    server' = server

catch(callback) ==
    server' = [server EXCEPT !.catchs = callback]

threads(allow) ==
    server' = [server EXCEPT !.allow_threads = allow]

\* The application's calls before listen (the registration methods take
\* &mut self, listen borrows self for good), each with a fresh callback.
Fresh(kind) == Callback(kind, Len(issued[kind]) + 1)

Passed(kind, path) ==
    /\ pc = "config"
    /\ issued' = [issued EXCEPT ![kind] = Append(@, path)]
    /\ UNCHANGED Serving

RoutesIssued ==
    Len(issued["GET"]) + Len(issued["POST"]) + Len(issued["PUT"])
        + Len(issued["DELETE"]) + Len(issued["PATCH"])

CallMiddleware(max) ==
    /\ Len(issued["middleware"]) < max
    /\ middleware(Fresh("middleware"))
    /\ Passed("middleware", "-")

CallGet(max) ==
    /\ RoutesIssued < max
    /\ \E path \in Paths : get(path, Fresh("GET")) /\ Passed("GET", path)

CallPost(max) ==
    /\ RoutesIssued < max
    /\ \E path \in Paths : post(path, Fresh("POST")) /\ Passed("POST", path)

CallPut(max) ==
    /\ RoutesIssued < max
    /\ \E path \in Paths : put(path, Fresh("PUT")) /\ Passed("PUT", path)

CallDelete(max) ==
    /\ RoutesIssued < max
    /\ \E path \in Paths : delete(path, Fresh("DELETE")) /\ Passed("DELETE", path)

CallPatch(max) ==
    /\ RoutesIssued < max
    /\ \E path \in Paths : patch(path, Fresh("PATCH")) /\ Passed("PATCH", path)

CallCatch(max) ==
    /\ Len(issued["catch"]) < max
    /\ catch(Fresh("catch"))
    /\ Passed("catch", "-")

CallThreads(max) ==
    /\ pc = "config"
    /\ \E allow \in 0..max : threads(allow)
    /\ UNCHANGED <<issued, Serving>>

----------------------------------------------------------------------------
(* The thread-count hint *)

\* a hint with the comparison the wrong way round
cpus_least(logical, physical) ==
    LET n == logical
    IN  IF n > physical THEN physical ELSE n

cpus(logical, physical) ==
    LET n == logical
    IN  IF n < physical THEN physical ELSE n

----------------------------------------------------------------------------
(* ThreadPool, from its contract: new(n) starts n workers, or cpus() workers *)
(* when n is 0; execute(job) appends to the shared queue and returns; a     *)
(* worker takes the job at the head, runs it to completion, and a job that  *)
(* panics is caught at the job boundary.                                     *)

Idle == [job |-> 0, phase |-> "idle", i |-> 0, hooks |-> <<>>]

ThreadPoolSize(size) ==
    IF size = 0 THEN cpus(host.logical, host.physical) ELSE size

ThreadPoolNew(size) ==
    [size |-> ThreadPoolSize(size), live |-> 1..ThreadPoolSize(size), queue |-> <<>>]

Execute(p, job) == [p EXCEPT !.queue = Append(@, job)]

----------------------------------------------------------------------------
(* Server::listen *)

\* a listen that always asks for the default pool
PoolArg_default(s) == 0

\* line 207: the count handed to ThreadPool::new
PoolArg(s) == s.allow_threads

\* a job that gets a freshly built server instead of a copy
Clone_fresh(s) == new

\* line 218: self.clone()
Clone(s) == s

\* a submission that never reaches the pool
Submit_lost(p, job) == p

\* a submission made twice
Submit_twice(p, job) == Execute(Execute(p, job), job)

\* a submission that is refused while as many jobs wait as there are workers
Submit_bounded(p, job) ==
    IF Len(p.queue) >= p.size THEN p ELSE Execute(p, job)

\* a submission that goes to the head of the queue
Submit_front(p, job) == [p EXCEPT !.queue = <<job>> \o @]

\* line 219: pool.execute(move || handler(stream, server_cp))
Submit(p, job) == Execute(p, job)

Connection(req, server_cp) ==
    [req |-> req, server_cp |-> server_cp, status |-> "queued",
     runs |-> <<>>,      \* the workers that took the job, in order
     trace |-> <<>>,     \* the callbacks invoked for it, in order
     pushed |-> <<>>,    \* the middlewares whose post-hook was pushed, in order
     halted |-> FALSE]   \* a middleware returned continue = false

\* a listen that builds the pool and prints before it looks at the bind
listen_unchecked ==
    /\ pc = "config"
    /\ pool' = ThreadPoolNew(PoolArg(server))
    /\ worker' = [w \in pool'.live |-> Idle]
    /\ hint' = IF PoolArg(server) = 0
                  THEN <<cpus(host.logical, host.physical)>> ELSE hint
    /\ stdout' = [stdout EXCEPT !.listening = @ + 1]
    /\ pc' \in {"panicked", "accept"}
    /\ UNCHANGED <<server, issued, host, poll, conns>>

\* lines 199-211: bind (a failure unwinds out of listen), set_nonblocking,
\* the pool, the "Listening" line
listen ==
    /\ pc = "config"
    /\ \/ /\ pc' = "panicked"
          /\ UNCHANGED <<hint, stdout, pool, worker>>
       \/ /\ pool' = ThreadPoolNew(PoolArg(server))
          /\ worker' = [w \in pool'.live |-> Idle]
          /\ hint' = IF PoolArg(server) = 0
                        THEN <<cpus(host.logical, host.physical)>> ELSE hint
          /\ stdout' = [stdout EXCEPT !.listening = @ + 1]
          /\ pc' = "accept"
    /\ UNCHANGED <<server, issued, host, poll, conns>>

\* lines 217-220: Ok(stream)
incoming_ok(req, maxConns) ==
    /\ pc = "accept"
    /\ Len(conns) < maxConns
    /\ poll' = [last |-> "ok", tick |-> 1 - poll.tick]
    /\ conns' = Append(conns, Connection(req, Clone(server)))
    /\ pool' = Submit(pool, Len(conns) + 1)
    /\ UNCHANGED <<server, issued, host, hint, pc, stdout, worker>>

\* line 221: Err(e) if e.kind() == WouldBlock => continue
incoming_would_block ==
    /\ pc = "accept"
    /\ poll' = [last |-> "would_block", tick |-> 1 - poll.tick]
    /\ UNCHANGED <<server, issued, host, hint, pc, stdout, pool, worker, conns>>

\* a failed poll that ends the loop
incoming_err_fatal ==
    /\ pc = "accept"
    /\ stdout.errors < MaxErrors
    /\ poll' = [last |-> "error", tick |-> 1 - poll.tick]
    /\ stdout' = [stdout EXCEPT !.errors = @ + 1]
    /\ pc' = "returned"
    /\ UNCHANGED <<server, issued, host, hint, pool, worker, conns>>

\* line 222: Err(e) => println!("Error: Stream Failed: {}", e)
incoming_err ==
    /\ pc = "accept"
    /\ stdout.errors < MaxErrors
    /\ poll' = [last |-> "error", tick |-> 1 - poll.tick]
    /\ stdout' = [stdout EXCEPT !.errors = @ + 1]
    /\ UNCHANGED <<server, issued, host, hint, pc, pool, worker, conns>>

----------------------------------------------------------------------------
(* The dispatch pipeline the job runs (handler), from its contract: the     *)
(* middlewares in list order, each returning (continue, post-hook); the     *)
(* route lookup unless a middleware halted; the pending post-hooks, last    *)
(* pushed first.                                                             *)

Event(ev, id) == [ev |-> ev, id |-> id]

RoutesOf(s, method) ==
    CASE method = "GET" -> s.gets
      [] method = "POST" -> s.posts
      [] method = "PUT" -> s.puts
      [] method = "DELETE" -> s.deletes
      [] method = "PATCH" -> s.patchs

RECURSIVE Scan(_, _)
Scan(routes, path) ==
    IF routes = <<>> THEN None
    ELSE IF Head(routes)[1] = path THEN Head(routes)[2]
    ELSE Scan(Tail(routes), path)

resolve(s, method, path) == Scan(RoutesOf(s, method), path)

Running(w) == w \in DOMAIN worker /\ worker[w].phase # "idle"

Untouched == <<server, issued, host, hint, pc, stdout, poll>>

\* a worker that takes a job while it runs another
CanTake_busy(w) == w \in pool.live

\* a worker waits on the queue only between jobs
CanTake(w) == w \in pool.live /\ worker[w].phase = "idle"

\* a worker takes the job at the head of the queue and enters the pipeline
Dequeue(w) ==
    /\ CanTake(w)
    /\ pool.queue # <<>>
    /\ LET j == Head(pool.queue)
       IN  /\ pool' = [pool EXCEPT !.queue = Tail(@)]
           /\ conns' = [conns EXCEPT ![j].status = "running",
                                      ![j].runs = Append(@, w)]
           /\ worker' = [worker EXCEPT ![w] =
                  [job |-> j,
                   phase |-> IF conns[j].server_cp.middlewares = <<>>
                               THEN "route" ELSE "middlewares",
                   i |-> 1, hooks |-> <<>>]]
    /\ UNCHANGED Untouched

\* a pipeline that goes on whatever the middleware returned
AfterMiddleware_deaf(continue, last) ==
    IF last THEN "route" ELSE "middlewares"

\* a pipeline that honours a halt only at the last middleware
AfterMiddleware_next(continue, last) ==
    IF ~last THEN "middlewares"
    ELSE IF continue THEN "route"
    ELSE "hooks"

\* a pipeline that routes as soon as one middleware has continued
AfterMiddleware_early(continue, last) ==
    IF ~continue THEN "hooks" ELSE "route"

\* where the pipeline goes after a middleware returned
AfterMiddleware(continue, last) ==
    IF ~continue THEN "hooks"
    ELSE IF last THEN "route"
    ELSE "middlewares"

\* step 2: the next middleware; pushed: it returned a post-hook that went
\* onto the pending list (for a halting middleware the contract leaves open
\* whether its own post-hook is pushed: both are explored)
RunMiddleware(w) ==
    /\ Running(w)
    /\ worker[w].phase = "middlewares"
    /\ LET j == worker[w].job
           chain == conns[j].server_cp.middlewares
           m == chain[worker[w].i]
       IN  \E continue \in BOOLEAN, pushed \in BOOLEAN :
             /\ conns' = [conns EXCEPT
                    ![j].trace = Append(@, Event("middleware", m)),
                    ![j].pushed = IF pushed THEN Append(@, m) ELSE @,
                    ![j].halted = ~continue]
             /\ worker' = [worker EXCEPT ![w] =
                    [job |-> j,
                     phase |-> AfterMiddleware(continue, worker[w].i = Len(chain)),
                     i |-> worker[w].i + 1,
                     hooks |-> IF pushed THEN Append(worker[w].hooks, m)
                               ELSE worker[w].hooks]]
    /\ UNCHANGED <<Untouched, pool>>

\* step 3: the route handler, else the fallback handler, else nothing
Route(w) ==
    /\ Running(w)
    /\ worker[w].phase = "route"
    /\ LET j == worker[w].job
           cfg == conns[j].server_cp
           h == resolve(cfg, conns[j].req[1], conns[j].req[2])
       IN  conns' = [conns EXCEPT ![j].trace =
                IF h # None THEN Append(@, Event("handler", h))
                ELSE IF cfg.catchs # None THEN Append(@, Event("catch", cfg.catchs))
                ELSE @]
    /\ worker' = [worker EXCEPT ![w].phase = "hooks"]
    /\ UNCHANGED <<Untouched, pool>>

\* step 4: the most recently pushed pending post-hook
RunHook(w) ==
    /\ Running(w)
    /\ worker[w].phase = "hooks"
    /\ worker[w].hooks # <<>>
    /\ conns' = [conns EXCEPT ![worker[w].job].trace =
                    Append(@, Event("hook", Last(worker[w].hooks)))]
    /\ worker' = [worker EXCEPT ![w].hooks = Front(@)]
    /\ UNCHANGED <<Untouched, pool>>

\* step 5: the job returns; the worker goes back to the queue
Finish(w) ==
    /\ Running(w)
    /\ worker[w].phase = "hooks"
    /\ worker[w].hooks = <<>>
    /\ conns' = [conns EXCEPT ![worker[w].job].status = "done"]
    /\ worker' = [worker EXCEPT ![w] = Idle]
    /\ UNCHANGED <<Untouched, pool>>

\* a panic that takes the worker thread down
Caught_dead(p, w) == [p EXCEPT !.live = @ \ {w}]

\* the pool after a job of worker w panicked: caught at the job boundary
Caught(p, w) == p

\* a callback of the job panics: the pipeline is abandoned where it stands
Panic(w) ==
    /\ Running(w)
    /\ conns' = [conns EXCEPT ![worker[w].job].status = "failed"]
    /\ pool' = Caught(pool, w)
    /\ worker' = [worker EXCEPT ![w] = Idle]
    /\ UNCHANGED Untouched

Workers == DOMAIN worker

----------------------------------------------------------------------------
(* Routing scenario: any routes and fallback, at most one middleware, one  *)
(* connection with any request.                                              *)

Next ==
    \/ CallMiddleware(1)
    \/ CallGet(MaxRoutes)
    \/ CallPost(MaxRoutes)
    \/ CallPut(MaxRoutes)
    \/ CallDelete(MaxRoutes)
    \/ CallPatch(MaxRoutes)
    \/ CallCatch(MaxCatch)
    \/ CallThreads(MaxThreads)
    \/ listen
    \/ \E req \in Requests : incoming_ok(req, 1)
    \/ \E w \in Workers : Dequeue(w)
    \/ \E w \in Workers : RunMiddleware(w)
    \/ \E w \in Workers : Route(w)
    \/ \E w \in Workers : RunHook(w)
    \/ \E w \in Workers : Finish(w)
    \/ \E w \in Workers : Panic(w)

Spec == Init /\ [][Next]_vars

----------------------------------------------------------------------------
(* Configuration scenario: the registration calls and the start of listen, *)
(* no connections.                                                           *)

ConfigNext ==
    \/ CallMiddleware(MaxMiddlewares)
    \/ CallGet(MaxRoutes)
    \/ CallPost(MaxRoutes)
    \/ CallPut(MaxRoutes)
    \/ CallDelete(MaxRoutes)
    \/ CallPatch(MaxRoutes)
    \/ CallCatch(MaxCatch)
    \/ CallThreads(MaxThreads)
    \/ listen

ConfigSpec == Init /\ [][ConfigNext]_vars

----------------------------------------------------------------------------
(* Chain scenario: any middleware chain, at most one GET route and one     *)
(* fallback, one connection with a GET request.                              *)

GetRequests == {"GET"} \X Paths

ChainNext ==
    \/ CallMiddleware(MaxMiddlewares)
    \/ CallGet(1)
    \/ CallCatch(1)
    \/ CallThreads(MaxThreads)
    \/ listen
    \/ \E req \in GetRequests : incoming_ok(req, 1)
    \/ \E w \in Workers : Dequeue(w)
    \/ \E w \in Workers : RunMiddleware(w)
    \/ \E w \in Workers : Route(w)
    \/ \E w \in Workers : RunHook(w)
    \/ \E w \in Workers : Finish(w)
    \/ \E w \in Workers : Panic(w)

ChainSpec == Init /\ [][ChainNext]_vars

----------------------------------------------------------------------------
(* Pool scenario: any thread count, at most one GET route, more            *)
(* connections than workers, each with the request GET /.                    *)

GetRoot == {<<"GET", "/">>}

PoolNext ==
    \/ CallGet(1)
    \/ CallThreads(MaxThreads)
    \/ listen
    \/ \E req \in GetRoot : incoming_ok(req, MaxConns)
    \/ \E w \in Workers : Dequeue(w)
    \/ \E w \in Workers : Route(w)
    \/ \E w \in Workers : Finish(w)
    \/ \E w \in Workers : Panic(w)

PoolSpec == Init /\ [][PoolNext]_vars

\* the largest pool of the scenario
PoolCapacity ==
    IF MaxThreads < cpus(HostLogical, HostPhysical)
        THEN cpus(HostLogical, HostPhysical) ELSE MaxThreads

\* worker threads are OS threads: one that can take a job, or go on with the
\* job it runs, eventually does
FairPoolSpec ==
    /\ PoolSpec
    /\ \A w \in 1..PoolCapacity :
          WF_vars(Dequeue(w) \/ Route(w) \/ Finish(w))

----------------------------------------------------------------------------
(* Acceptor scenario: the pool scenario with every outcome of a poll.      *)

AcceptNext ==
    \/ CallGet(1)
    \/ CallThreads(MaxThreads)
    \/ listen
    \/ \E req \in GetRoot : incoming_ok(req, MaxPolled)
    \/ incoming_would_block
    \/ incoming_err
    \/ \E w \in Workers : Dequeue(w)
    \/ \E w \in Workers : Route(w)
    \/ \E w \in Workers : Finish(w)
    \/ \E w \in Workers : Panic(w)

AcceptSpec == Init /\ [][AcceptNext]_vars

----------------------------------------------------------------------------
(* The hint on every host: num_cpus::get() reports at least one logical   *)
(* core (it falls back to 1); what get_physical() reports is left free.     *)

CpusInit ==
    /\ server = new
    /\ issued = [kind \in Kinds |-> <<>>]
    /\ host \in [logical : 1..MaxCores, physical : 0..MaxCores]
    /\ Unstarted

CallCpus ==
    /\ hint' = <<cpus(host.logical, host.physical)>>
    /\ UNCHANGED <<server, issued, host, pc, stdout, poll, pool, worker, conns>>

CpusSpec == CpusInit /\ [][CallCpus]_vars

----------------------------------------------------------------------------
(* Startup scenario: any thread count, on every host.                       *)

StartNext ==
    \/ CallThreads(MaxThreads)
    \/ listen

StartSpec == CpusInit /\ [][StartNext]_vars

----------------------------------------------------------------------------
(* Properties *)

Conns == 1..Len(conns)

\* the callbacks of one kind invoked for a connection, in order
Invoked(c, ev) == SelectSeq(c.trace, LAMBDA e : e.ev = ev)

\* the callback passed to the earliest call of `method` with path `path`
EarliestRegistered(method, path) ==
    LET ks == {k \in 1..Len(issued[method]) : issued[method][k] = path}
    IN  IF ks = {} THEN None
        ELSE Callback(method, CHOOSE k \in ks : \A l \in ks : k <= l)

Wanted(c) == EarliestRegistered(c.req[1], c.req[2])

(* C1: for every method and path, the lookup yields the handler passed to  *)
(* the earliest registration call of that method with exactly that path     *)
(* (none when there is no such call); a route handler invoked for a         *)
(* connection is that handler and no other, and a connection that ran to    *)
(* the end without a halting middleware invoked it exactly once.            *)
FirstRegisteredWins ==
    /\ \A method \in Methods, path \in Paths :
          resolve(server, method, path) = EarliestRegistered(method, path)
    /\ \A j \in Conns :
          /\ \A n \in 1..Len(conns[j].trace) :
                conns[j].trace[n].ev = "handler"
                    => conns[j].trace[n].id = Wanted(conns[j])
          /\ (conns[j].status = "done" /\ ~conns[j].halted
                    /\ Wanted(conns[j]) # None)
                => Len(Invoked(conns[j], "handler")) = 1

\* GET / registered twice, a GET / request served by the first handler
FirstRegisteredWitness ==
    \E j \in Conns :
        /\ issued["GET"] = <<"/", "/">>
        /\ conns[j].req = <<"GET", "/">>
        /\ conns[j].status = "done"
        /\ Invoked(conns[j], "handler") = <<Event("handler", Callback("GET", 1))>>

(* C2: a connection that ran to the end, no middleware having halted, and  *)
(* whose method and path match no registered route invoked no route handler *)
(* and invoked the fallback handler exactly once if catch was called, and   *)
(* no handler at all if catch was never called; at no time has an unmatched *)
(* connection invoked a route handler or the fallback more than once.       *)
FallbackIffRegistered ==
    \A j \in Conns :
        Wanted(conns[j]) = None =>
            /\ Invoked(conns[j], "handler") = <<>>
            /\ Len(Invoked(conns[j], "catch")) <= 1
            /\ Invoked(conns[j], "catch") # <<>> => issued["catch"] # <<>>
            /\ (conns[j].status = "done" /\ ~conns[j].halted
                    /\ issued["catch"] # <<>>)
                  => Len(Invoked(conns[j], "catch")) = 1

\* a fallback and no routes: POST /x invokes the fallback once, nothing else
FallbackWitness ==
    \E j \in Conns :
        /\ RoutesIssued = 0
        /\ issued["catch"] # <<>>
        /\ conns[j].req = <<"POST", "/x">>
        /\ conns[j].status = "done"
        /\ Len(Invoked(conns[j], "catch")) = 1
        /\ Invoked(conns[j], "handler") = <<>>

\* no fallback and no match: the connection ends with no handler invoked
NoFallbackWitness ==
    \E j \in Conns :
        /\ issued["catch"] = <<>>
        /\ Wanted(conns[j]) = None
        /\ ~conns[j].halted
        /\ conns[j].status = "done"
        /\ Invoked(conns[j], "catch") = <<>>

(* C3: a connection for which a middleware returned continue = false has   *)
(* invoked no route handler and no fallback handler, at any time; and once  *)
(* its pipeline has run to the end, every post-hook pushed before the halt  *)
(* has been executed.                                                        *)
HaltIsAbsolute ==
    \A j \in Conns :
        conns[j].halted =>
            /\ Invoked(conns[j], "handler") = <<>>
            /\ Invoked(conns[j], "catch") = <<>>
            /\ conns[j].status = "done" =>
                  \A n \in 1..Len(conns[j].pushed) :
                      \E k \in 1..Len(conns[j].trace) :
                          conns[j].trace[k] = Event("hook", conns[j].pushed[n])

\* a route that matches and a fallback, two post-hooks pushed, then a halt
HaltWitness ==
    \E j \in Conns :
        /\ conns[j].halted
        /\ conns[j].status = "done"
        /\ Wanted(conns[j]) # None
        /\ issued["catch"] # <<>>
        /\ Len(conns[j].pushed) >= 2
        /\ Len(Invoked(conns[j], "hook")) >= 2

(* C4: for every connection, the n-th middleware invoked is the n-th       *)
(* registered one, every middleware is invoked before any post-hook, the    *)
(* n-th post-hook executed is the n-th most recently pushed one, and once   *)
(* the pipeline has run to the end every pushed post-hook has been executed *)
(* exactly once (and, no middleware having halted, every registered         *)
(* middleware has been invoked).                                             *)
ChainOrder ==
    \A j \in Conns :
        LET c == conns[j]
            mws == Invoked(c, "middleware")
            hooks == Invoked(c, "hook")
        IN  /\ Len(mws) <= Len(issued["middleware"])
            /\ \A n \in 1..Len(mws) : mws[n].id = Callback("middleware", n)
            /\ \A a, b \in 1..Len(c.trace) :
                  (c.trace[a].ev = "hook" /\ c.trace[b].ev = "middleware") => b < a
            /\ Len(hooks) <= Len(c.pushed)
            /\ \A n \in 1..Len(hooks) :
                  hooks[n].id = c.pushed[Len(c.pushed) + 1 - n]
            /\ \A a, b \in 1..Len(c.pushed) :
                  a < b => c.pushed[a][2] < c.pushed[b][2]
            /\ c.status = "done" => Len(hooks) = Len(c.pushed)
            /\ (c.status = "done" /\ ~c.halted)
                  => Len(mws) = Len(issued["middleware"])

\* M1, M2, M3 all continue and all return a post-hook
ChainWitness ==
    \E j \in Conns :
        /\ conns[j].status = "done"
        /\ ~conns[j].halted
        /\ Invoked(conns[j], "middleware") =
              <<Event("middleware", Callback("middleware", 1)),
                Event("middleware", Callback("middleware", 2)),
                Event("middleware", Callback("middleware", 3))>>
        /\ Invoked(conns[j], "hook") =
              <<Event("hook", Callback("middleware", 3)),
                Event("hook", Callback("middleware", 2)),
                Event("hook", Callback("middleware", 1))>>

Jobs(status) == {j \in Conns : conns[j].status = status}

Occurrences(q, job) == Cardinality({n \in 1..Len(q) : q[n] = job})

(* C5: at every moment the number of jobs being run is at most the number  *)
(* of workers of the pool, however many connections were accepted; a job    *)
(* that no worker has taken is in the queue.                                 *)
BoundedConcurrency ==
    /\ Cardinality(Jobs("running")) <= pool.size
    /\ \A j \in Jobs("queued") : Occurrences(pool.queue, j) >= 1

\* two workers, both busy, a third job waiting
BoundedWitness ==
    /\ pool.size = 2
    /\ Len(conns) > pool.size
    /\ Cardinality(Jobs("running")) = pool.size
    /\ pool.queue # <<>>

(* C6: every accepted connection's job eventually ends (its pipeline runs  *)
(* to the end, or it fails), workers being scheduled fairly.                 *)
EveryJobCompletes ==
    \A j \in 1..MaxConns :
        (Len(conns) >= j)
            ~> (Len(conns) >= j /\ conns[j].status \in {"done", "failed"})

\* more jobs than workers, all of them run to the end
AllCompleteWitness ==
    /\ pc = "accept"
    /\ Len(conns) = MaxConns
    /\ pool.size < Len(conns)
    /\ Jobs("done") = Conns

(* C7: once a job has failed, the main thread is still in the accept loop  *)
(* and can accept, every worker of the pool is alive, the worker that ran   *)
(* the failed job is waiting on the queue or running another job, and an    *)
(* idle worker can take the next queued job.                                 *)
FailureIsIsolated ==
    Jobs("failed") # {} =>
        /\ pc = "accept"
        /\ Len(conns) < MaxConns
              => ENABLED (\E req \in GetRoot : incoming_ok(req, MaxConns))
        /\ pool.live = 1..pool.size
        /\ \A j \in Jobs("failed") :
              /\ conns[j].runs[1] \in pool.live
              /\ worker[conns[j].runs[1]].job # j
        /\ \A w \in Workers :
              (worker[w].phase = "idle" /\ pool.queue # <<>>) => ENABLED Dequeue(w)

\* one worker: the job before the failed one and the job after it both done
IsolationWitness ==
    /\ pool.size = 1
    /\ Len(conns) = 3
    /\ conns[1].status = "done"
    /\ conns[2].status = "failed"
    /\ conns[3].status = "done"
    /\ conns[3].runs = conns[2].runs

(* C8: every accepted connection is exactly one job: until a worker takes  *)
(* it, it is in the queue exactly once; once taken it is never in the queue *)
(* again and was taken by one worker, once; while it runs, that worker and  *)
(* no other holds it; when it is done or has failed, no worker holds it.    *)
ExactlyOnce ==
    /\ \A n \in 1..Len(pool.queue) : pool.queue[n] \in Conns
    /\ \A w \in Workers : worker[w].phase # "idle" => worker[w].job \in Jobs("running")
    /\ \A j \in Conns :
          LET holders == {w \in Workers : worker[w].job = j}
          IN  /\ Len(conns[j].runs) <= 1
              /\ conns[j].status = "queued" <=> conns[j].runs = <<>>
              /\ Occurrences(pool.queue, j) =
                    (IF conns[j].status = "queued" THEN 1 ELSE 0)
              /\ holders = (IF conns[j].status = "running"
                              THEN {conns[j].runs[1]} ELSE {})

\* two workers: a failed job, a finished job and a running job
ExactlyOnceWitness ==
    /\ pool.size = 2
    /\ Jobs("failed") # {}
    /\ Jobs("done") # {}
    /\ Jobs("running") # {}
    /\ \A j \in Conns : Len(conns[j].runs) = 1

(* C9: the main thread never leaves the accept loop; an item of incoming() *)
(* that is WouldBlock changes nothing; one that is another error adds one   *)
(* error line and submits nothing; one that is a connection adds exactly    *)
(* that connection's job at the end of the queue and prints nothing.        *)
PollOutcomes ==
    [][/\ pc = "accept" => pc' = "accept"
       /\ poll' # poll =>
            /\ pc = "accept"
            /\ poll'.last \in {"ok", "would_block", "error"}
            /\ poll'.last = "would_block" =>
                  /\ conns' = conns
                  /\ pool' = pool
                  /\ stdout' = stdout
            /\ poll'.last = "error" =>
                  /\ conns' = conns
                  /\ pool' = pool
                  /\ stdout' = [stdout EXCEPT !.errors = @ + 1]
            /\ poll'.last = "ok" =>
                  /\ Len(conns') = Len(conns) + 1
                  /\ pool'.queue = Append(pool.queue, Len(conns'))
                  /\ stdout' = stdout]_vars

\* after a failed poll and an accepted connection, an empty poll: still looping
PollWitness ==
    /\ pc = "accept"
    /\ stdout.errors >= 1
    /\ Len(conns) >= 1
    /\ poll.last = "would_block"

Max(a, b) == CHOOSE m \in {a, b} : m >= a /\ m >= b

(* C10: the value cpus() returns is the larger of the logical and the      *)
(* physical core count, and is at least 1.                                   *)
HintIsMax ==
    hint # <<>> =>
        /\ hint[1] = Max(host.logical, host.physical)
        /\ hint[1] >= 1

\* more physical than logical cores reported
HintWitness ==
    /\ hint = <<3>>
    /\ host = [logical |-> 2, physical |-> 3]

(* C11: once listen is in its loop the pool has exactly allow_threads      *)
(* workers when allow_threads is at least 1, and as many workers as the     *)
(* larger of the host's two core counts when allow_threads is 0; it never   *)
(* has zero workers.                                                         *)
PoolSizeAsConfigured ==
    pc = "accept" =>
        /\ pool.size = (IF server.allow_threads >= 1 THEN server.allow_threads
                        ELSE Max(host.logical, host.physical))
        /\ pool.size >= 1
        /\ pool.live = 1..pool.size
        /\ DOMAIN worker = pool.live

\* threads never called (or threads(0)) on a host with 2 logical, 3 physical
PoolSizeWitness ==
    /\ pc = "accept"
    /\ server.allow_threads = 0
    /\ host = [logical |-> 2, physical |-> 3]
    /\ pool.size = 3

\* threads(1): one worker whatever the host
PoolSizeOneWitness ==
    /\ pc = "accept"
    /\ server.allow_threads = 1
    /\ host.logical > 1
    /\ pool.size = 1

(* C12: a step that leaves listen by a failed bind starts from the         *)
(* unstarted server and leaves it without a pool, without workers, without  *)
(* the "Listening" line and without connections; and nothing happens after  *)
(* it: no retry, no accept, no dispatch.                                     *)
BindFailureAborts ==
    [][/\ pc # "panicked"
       /\ pc' = "panicked" =>
            /\ pc = "config"
            /\ pool' = [size |-> 0, live |-> {}, queue |-> <<>>]
            /\ worker' = <<>>
            /\ stdout' = [listening |-> 0, errors |-> 0]
            /\ conns' = <<>>
            /\ server' = server]_vars

\* the bind fails on a server with a route and a thread count set
BindFailureWitness ==
    /\ pc = "panicked"
    /\ RoutesIssued > 0
    /\ server.allow_threads = 1
    /\ pool.size = 0
    /\ stdout.listening = 0


(* C13: from the step that enters listen on, no step changes any field of  *)
(* the server, and every accepted connection carries a copy equal to the    *)
(* server as listen received it.                                             *)
ConfigFrozen ==
    [][/\ pc' # "config" => server' = server
       /\ \A j \in 1..Len(conns') : conns'[j].server_cp = server']_vars

\* a job ran to its end against a server with two middlewares, a route and
\* a fallback
ConfigFrozenWitness ==
    /\ pc = "accept"
    /\ Len(server.middlewares) = 2
    /\ server.gets # <<>>
    /\ server.catchs # None
    /\ Len(conns) = 1
    /\ conns[1].status = "done"
    /\ Len(conns[1].trace) >= 3
    /\ conns[1].server_cp = server


\* the field of Server a registration call of the kind writes
FieldOf(kind) ==
    CASE kind = "middleware" -> "middlewares"
      [] kind = "GET" -> "gets"
      [] kind = "POST" -> "posts"
      [] kind = "PUT" -> "puts"
      [] kind = "DELETE" -> "deletes"
      [] kind = "PATCH" -> "patchs"
      [] kind = "catch" -> "catchs"

\* every field but the one named keeps its value
OnlyField(f) == \A g \in DOMAIN server \ {f} : server'[g] = server[g]

(* C14: a registration step changes only the field of its own call.  A     *)
(* middleware or route call leaves its list one longer, the old entries     *)
(* where they were and the new entry last, even when the path is already    *)
(* in the list; catch assigns the fallback slot; threads assigns the        *)
(* thread count.                                                             *)
RegistrationFrame ==
    [][pc = "config" /\ pc' = "config" =>
         \/ /\ issued' = issued
            /\ OnlyField("allow_threads")
         \/ \E kind \in Kinds :
              /\ Len(issued'[kind]) = Len(issued[kind]) + 1
              /\ issued' = [issued EXCEPT ![kind] = Append(@, Last(issued'[kind]))]
              /\ OnlyField(FieldOf(kind))
              /\ LET old == server[FieldOf(kind)]
                     now == server'[FieldOf(kind)]
                     callback == Callback(kind, Len(issued'[kind]))
                 IN  IF kind = "catch" THEN now = callback
                     ELSE /\ Len(now) = Len(old) + 1
                          /\ SubSeq(now, 1, Len(old)) = old
                          /\ Last(now) = IF kind = "middleware" THEN callback
                                         ELSE <<Last(issued'[kind]), callback>>]_vars

\* two posts for the same path are both in the list, in call order, next to
\* a fallback and a thread count
RegistrationWitness ==
    /\ pc = "config"
    /\ server.posts = <<<<"/x", Callback("POST", 1)>>, <<"/x", Callback("POST", 2)>>>>
    /\ server.catchs = Callback("catch", 1)
    /\ server.allow_threads = 1
    /\ server.gets = <<>>
    /\ Len(server.middlewares) = 2


(* C15: once a middleware has returned continue = false for a connection,   *)
(* with i middlewares invoked so far, every further callback invoked for it  *)
(* is a post-hook of one of those i middlewares: no later middleware is      *)
(* invoked, nothing more is pushed, and the halt stands.                     *)
HaltSkipsLater ==
    [][\A j \in Conns :
          conns[j].halted =>
              LET i == Len(Invoked(conns[j], "middleware"))
              IN  /\ conns'[j].halted
                  /\ conns'[j].pushed = conns[j].pushed
                  /\ \A n \in 1..Len(conns[j].pushed) : conns[j].pushed[n][2] <= i
                  /\ \/ conns'[j].trace = conns[j].trace
                     \/ /\ Len(conns'[j].trace) = Len(conns[j].trace) + 1
                        /\ Front(conns'[j].trace) = conns[j].trace
                        /\ Last(conns'[j].trace).ev = "hook"
                        /\ Last(conns'[j].trace).id[2] <= i]_vars

\* the second of three middlewares halts: the third is never invoked, the
\* post-hook of the first runs
HaltSkipsWitness ==
    \E j \in Conns :
        /\ Len(conns[j].server_cp.middlewares) = 3
        /\ conns[j].halted
        /\ conns[j].status = "done"
        /\ Len(Invoked(conns[j], "middleware")) = 2
        /\ conns[j].pushed = <<Callback("middleware", 1)>>
        /\ Last(conns[j].trace) = Event("hook", Callback("middleware", 1))


\* the positions of a connection's trace that hold a route or fallback
\* handler
Handled(c) == {n \in 1..Len(c.trace) : c.trace[n].ev \in {"handler", "catch"}}

(* C16: in every connection's trace a route or fallback handler stands     *)
(* right after one invocation of each registered middleware, none of which   *)
(* halted; there is at most one; every post-hook stands after it; and a      *)
(* pipeline that ran to the end without a halt has invoked a handler exactly *)
(* when a route matches or a fallback is registered, whatever post-hooks     *)
(* were pushed.                                                              *)
StrictlySequential ==
    \A j \in Conns :
        LET c == conns[j]
            chain == c.server_cp.middlewares
        IN  /\ \A n \in Handled(c) :
                  /\ n = Len(chain) + 1
                  /\ \A k \in 1..(n - 1) : c.trace[k] = Event("middleware", chain[k])
                  /\ ~c.halted
                  /\ \A k \in (n + 1)..Len(c.trace) : c.trace[k].ev = "hook"
            /\ \A n \in 1..Len(c.trace) :
                  (c.trace[n].ev = "hook" /\ ~c.halted)
                      => (Len(chain) < n
                            /\ (Handled(c) = {}
                                  <=> (Wanted(c) = None /\ c.server_cp.catchs = None)))
            /\ (c.status = "done" /\ ~c.halted)
                  => (Handled(c) # {}
                        <=> (Wanted(c) # None \/ c.server_cp.catchs # None))

\* two middlewares, the route handler, then both post-hooks
SequentialWitness ==
    \E j \in Conns :
        /\ conns[j].status = "done"
        /\ conns[j].trace = <<Event("middleware", Callback("middleware", 1)),
                              Event("middleware", Callback("middleware", 2)),
                              Event("handler", Callback("GET", 1)),
                              Event("hook", Callback("middleware", 2)),
                              Event("hook", Callback("middleware", 1))>>


\* the accepted connections no worker has taken yet, in accept order
Waiting == SelectSeq([j \in Conns |-> j], LAMBDA j : conns[j].status = "queued")

(* C17: while listen is in its loop and connections keep arriving, the      *)
(* accept step is enabled whatever the workers are doing and however many    *)
(* jobs wait; the queue holds every accepted connection that no worker has   *)
(* taken, in accept order, so none was dropped or refused.                   *)
SubmitNeverBlocks ==
    /\ (pc = "accept" /\ Len(conns) < MaxConns)
          => ENABLED (\E req \in GetRoot : incoming_ok(req, MaxConns))
    /\ pool.queue = Waiting

\* every worker is busy and more jobs wait than there are workers
QueueExceedsPoolWitness ==
    /\ pc = "accept"
    /\ \A w \in Workers : worker[w].phase # "idle"
    /\ Len(pool.queue) > pool.size
    /\ poll.last = "ok"


(* C18: a connection accepted later has completed its pipeline while one   *)
(* accepted earlier has not only when the pool has at least two workers and  *)
(* a worker is running the earlier one; CompletionOrderWitness is such a     *)
(* state, so completion order across connections is not guaranteed.          *)
InversionNeedsTwoWorkers ==
    \A a, b \in Conns :
        (a < b /\ conns[b].status = "done" /\ conns[a].status \notin {"done", "failed"})
            => (pool.size >= 2 /\ conns[a].status = "running")

\* two workers: the second connection is done, the first is still running
CompletionOrderWitness ==
    /\ pool.size >= 2
    /\ Len(conns) >= 2
    /\ conns[1].status = "running"
    /\ conns[2].status = "done"
    /\ conns[2].trace # <<>>
    /\ conns[1].runs # conns[2].runs


\* the path was passed to a registration call of the method
Registered(method, path) ==
    \E k \in 1..Len(issued[method]) : issued[method][k] = path

(* C19: every route list holds only handlers passed to calls of its own    *)
(* method, the lookup for a method yields only such a handler, and a route   *)
(* handler invoked for a connection was passed to a call of the request's    *)
(* method; a connection whose path was registered under other methods only   *)
(* invokes no route handler, and once it has run to the end without a halt   *)
(* it has invoked the fallback if there is one and nothing otherwise.        *)
MethodIsolation ==
    /\ \A method \in Methods :
          /\ \A n \in 1..Len(RoutesOf(server, method)) :
                RoutesOf(server, method)[n][2][1] = method
          /\ \A path \in Paths :
                /\ resolve(server, method, path) # None
                      => resolve(server, method, path)[1] = method
                /\ ~Registered(method, path)
                      => resolve(server, method, path) = None
    /\ \A j \in Conns :
          LET c == conns[j]
          IN  /\ \A n \in 1..Len(c.trace) :
                    c.trace[n].ev = "handler" => c.trace[n].id[1] = c.req[1]
              /\ ~Registered(c.req[1], c.req[2]) =>
                    /\ Invoked(c, "handler") = <<>>
                    /\ (c.status = "done" /\ ~c.halted) =>
                          Invoked(c, "catch") =
                              (IF c.server_cp.catchs = None THEN <<>>
                               ELSE <<Event("catch", c.server_cp.catchs)>>)

\* "/" is registered under POST and PUT only: GET / goes to the fallback
MethodIsolationWitness ==
    \E j \in Conns :
        /\ Registered("POST", "/") /\ Registered("PUT", "/")
        /\ conns[j].req = <<"GET", "/">>
        /\ conns[j].status = "done"
        /\ ~conns[j].halted
        /\ Invoked(conns[j], "handler") = <<>>
        /\ Len(Invoked(conns[j], "catch")) = 1


\* the callback passed to the most recent catch call
LatestCatch ==
    IF issued["catch"] = <<>> THEN None
    ELSE Callback("catch", Len(issued["catch"]))

(* C20: the fallback slot holds nothing before the first catch call and    *)
(* afterwards exactly the handler of the most recent catch call; a fallback  *)
(* handler invoked for a connection is that handler, invoked at most once    *)
(* and only for a request no route matches.                                  *)
LastCatchWins ==
    /\ server.catchs = LatestCatch
    /\ \A j \in Conns :
          /\ Len(Invoked(conns[j], "catch")) <= 1
          /\ \A n \in 1..Len(conns[j].trace) :
                conns[j].trace[n].ev = "catch" =>
                    /\ conns[j].trace[n].id = LatestCatch
                    /\ Wanted(conns[j]) = None

\* catch was called twice: an unmatched request invokes the second handler
LastCatchWitness ==
    \E j \in Conns :
        /\ Len(issued["catch"]) = 2
        /\ Wanted(conns[j]) = None
        /\ conns[j].status = "done"
        /\ Invoked(conns[j], "catch") = <<Event("catch", Callback("catch", 2))>>

====
